---- MODULE Spec2Model ----
(***************************************************************************)
(* Model of datavalidation1.py: the validation pass (validate_data), the   *)
(* per-row check (validate_row), the fix step (fix_failed_rows) and the    *)
(* control flow of main.                                                   *)
(*                                                                         *)
(* Three specifications:                                                   *)
(*   Spec      applies validate_data, validate_row and fix_failed_rows to  *)
(*             bounded tables and rule assignments;                        *)
(*   SpecLoop  runs the loop of main (lines 17-34) from the call of        *)
(*             fix_failed_rows on what validate_data returned;             *)
(*   SpecMain  executes main() statement by statement.                     *)
(*                                                                         *)
(* A cell value is a sequence of one-character strings (a Python str); the *)
(* missing value (NaN/None) is the distinguished sequence Null.  A Python  *)
(* exception is modelled as a result record whose exc field names it.  The *)
(* streamlit calls are the I/O shell: they display, or return the          *)
(* operator's input, and are not modelled as raising.                      *)
(***************************************************************************)
EXTENDS Integers, Sequences, FiniteSets, TLC

VARIABLES
    pc,                \* position of the execution
    uploaded_file,     \* st.file_uploader result (main, line 9)
    rule_choice,       \* the operator's st.selectbox choices, by column position
    operator,          \* the operator's answers to the widgets of lines 19 and 21
    df,                \* the DataFrame
    validation_rules,  \* dict column -> rule type, in insertion order
    failed_rows,       \* main's local variable failed_rows
    returned,          \* value returned (or exception raised) by the last call
    row_results,       \* validate_row's result for every row label
    df_before,         \* the DataFrame as it was when fix_failed_rows was called
    new_values_in,     \* the operator's st.text_input entries (line 137)
    error,             \* exception that ended main ("none" while running)
    loop               \* the loop of lines 17-34: iteration number, export
                       \* handoffs made, st.info message of line 24 shown

vars == << pc, uploaded_file, rule_choice, operator, df, validation_rules,
           failed_rows, returned, row_results, df_before, new_values_in, error,
           loop >>

----------------------------------------------------------------------------
(* Bounds *)

MaxRows == 2

----------------------------------------------------------------------------
(* Cell values *)

Null == << "<NaN>" >>

A == << "A" >>
B == << "B" >>
EmailOk == << "a", "@", "b", ".", "c", "o" >>
EmailNl == << "a", "@", "b", ".", "c", "o", "\n" >>
D1 == << "2", "0", "2", "4", "-", "0", "1", "-", "0", "1" >>
D2 == << "2", "0", "2", "4", "-", "0", "1", "-", "0", "2" >>

\* str(x) as used at line 102: str(nan) is "nan", a str is itself
PyStr(x) == IF x = Null THEN << "n", "a", "n" >> ELSE x

\* pd.isnull on a scalar
IsNull(x) == x = Null

Lower == { "a", "b", "c", "n", "o" }
Upper == { "A", "B" }
Digit == { "0", "1", "2", "3", "4", "5", "6", "7", "8", "9" }
Alpha == Lower \cup Upper
LocalClass == Alpha \cup Digit \cup { ".", "_", "%", "+", "-" }
DomainClass == Alpha \cup Digit \cup { ".", "-" }

AllIn(s, lo, hi, class) == \A p \in lo..hi : s[p] \in class

\* The pattern of lines 101 and 171 matched over s[1..n], n being the end of
\* the match: ^[a-zA-Z0-9._%+-]+@[a-zA-Z0-9.-]+\.[a-zA-Z]{2,}
EmailBody(s, n) ==
    \E at \in 2..n : \E dot \in (at + 2)..(n - 2) :
        /\ AllIn(s, 1, at - 1, LocalClass)
        /\ s[at] = "@"
        /\ AllIn(s, at + 1, dot - 1, DomainClass)
        /\ s[dot] = "."
        /\ AllIn(s, dot + 1, n, Alpha)

\* re.match(pattern, s) for a str s: "$" matches at the end of the string and
\* also just before a newline that ends the string
ReMatch(s) ==
    \/ EmailBody(s, Len(s))
    \/ Len(s) > 0 /\ s[Len(s)] = "\n" /\ EmailBody(s, Len(s) - 1)

\* a match of the whole string (re.fullmatch): the reference for "in full"
ReFullMatch(s) == EmailBody(s, Len(s))

DigitVal(c) ==
    CASE c = "0" -> 0 [] c = "1" -> 1 [] c = "2" -> 2 [] c = "3" -> 3
      [] c = "4" -> 4 [] c = "5" -> 5 [] c = "6" -> 6 [] c = "7" -> 7
      [] c = "8" -> 8 [] c = "9" -> 9

NaT == -1
Unparsable == -2

IsIsoDate(s) ==
    /\ Len(s) = 10
    /\ \A p \in { 1, 2, 3, 4, 6, 7, 9, 10 } : s[p] \in Digit
    /\ s[5] = "-" /\ s[8] = "-"
    /\ 10 * DigitVal(s[6]) + DigitVal(s[7]) \in 1..12
    /\ 10 * DigitVal(s[9]) + DigitVal(s[10]) \in 1..31

\* pd.to_datetime on one value: NaT for a missing value, the timestamp (as the
\* ordinal yyyymmdd) for a date string, Unparsable where pandas raises
ToDatetime(x) ==
    IF x = Null THEN NaT
    ELSE IF IsIsoDate(x)
         THEN 10000 * (1000 * DigitVal(x[1]) + 100 * DigitVal(x[2])
                        + 10 * DigitVal(x[3]) + DigitVal(x[4]))
              + 100 * (10 * DigitVal(x[6]) + DigitVal(x[7]))
              + (10 * DigitVal(x[9]) + DigitVal(x[10]))
         ELSE Unparsable

\* start >= end on timestamps: every comparison with NaT is False
DatetimeGe(s, e) == s # NaT /\ e # NaT /\ s >= e

----------------------------------------------------------------------------
(* Rule types and tables *)

RuleTypes ==
    { "Required fields", "Data types", "String length", "Numeric ranges",
      "Categorical values", "Date/time constraints", "Pattern matching",
      "Unique values", "Dependencies between columns",
      "Custom validation functions" }

\* the rule types that have a branch in validate_data and validate_row
CheckedRuleTypes ==
    { "Required fields", "Unique values", "Dependencies between columns",
      "Pattern matching", "Custom validation functions" }

\* column layouts of the uploaded files
Schemas ==
    { << "c" >>, << "Email Address" >>, << "Phone Number" >>,
      << "c", "Email Address" >>,
      << "Start Date", "End Date" >>,
      << "Start Date", "c" >>,
      << "c", "Phone Number" >>,
      << "Start Date", "End Date", "Phone Number" >> }

\* values found in a column of the uploaded files
CellValues(col) ==
    CASE col = "Email Address" -> { Null, EmailOk, EmailNl, A }
      [] col = "Start Date" -> { Null, D1, D2 }
      [] col = "End Date" -> { D1, D2, A }
      [] col = "Phone Number" -> { Null, A }
      [] OTHER -> { Null, A, B }

\* texts the operator types into st.text_input
FixInputs == { A, D1 }

Range(s) == { s[p] : p \in DOMAIN s }

NoDf == [ columns |-> << >>, index |-> << >>, data |-> << >> ]

\* the DataFrames the readers of load_data produce: a RangeIndex 0..n-1
Tables ==
    UNION { UNION { { [ columns |-> cols,
                        index |-> [ p \in 1..n |-> p - 1 ],
                        data |-> d ] :
                      d \in [ 0..(n - 1) -> { r \in [ Range(cols) -> UNION { CellValues(c) : c \in Range(cols) } ] :
                                               \A c \in Range(cols) : r[c] \in CellValues(c) } ] } :
                    n \in 1..MaxRows } :
            cols \in Schemas }

\* the selectbox choices offered for a layout: any rule type on a single
\* column; on two columns, the rule types the code evaluates; on three
\* columns, the two rule types that bear on the date columns
RuleChoices(cols) ==
    IF Len(cols) = 1 THEN [ 1..1 -> RuleTypes ]
    ELSE IF Len(cols) = 2 THEN [ 1..2 -> CheckedRuleTypes ]
    ELSE [ 1..Len(cols) -> { "Required fields", "Dependencies between columns" } ]

----------------------------------------------------------------------------
(* DataFrame access *)

NRows(d) == Len(d.index)
RowLabels(d) == Range(d.index)

\* df[col]: the column's values by position
ColumnOf(d, col) == [ p \in 1..NRows(d) |-> d.data[d.index[p]][col] ]

\* the columns that have an entry in the dict validation_rules
RuleColumns(rules) == { rules[k][1] : k \in DOMAIN rules }

\* validation_rules[col]
RuleOf(rules, col) == rules[CHOOSE k \in DOMAIN rules : rules[k][1] = col][2]

\* results of a call: a value, or the exception it raised
Return(v) == [ exc |-> "none", val |-> v ]
RaiseList(e) == [ exc |-> e, val |-> << >> ]
RaiseBool(e) == [ exc |-> e, val |-> FALSE ]

----------------------------------------------------------------------------
(* validate_data, lines 69-125 *)

\* df.duplicated(subset=[col]).any(): two positions hold equal values
\* (missing values count as equal to each other)
AnyDuplicated(d, col) ==
    \E p, q \in 1..NRows(d) : p < q /\ d.data[d.index[p]][col] = d.data[d.index[q]][col]

\* ColumnCheck with a missing partner column counted as a failure of the
\* dependency rule
ColumnCheck_MissingPartnerFails(d, rules, col, rule_type) ==
    CASE rule_type = "Required fields" ->
            IF \E p \in 1..NRows(d) : IsNull(ColumnOf(d, col)[p]) THEN "fail" ELSE "pass"
      [] rule_type = "Unique values" ->
            IF AnyDuplicated(d, col) THEN "fail" ELSE "pass"
      [] rule_type = "Dependencies between columns" ->
            IF "Start Date" \in RuleColumns(rules) /\ "End Date" \in RuleColumns(rules)
            THEN LET s == [ p \in 1..NRows(d) |-> ToDatetime(ColumnOf(d, "Start Date")[p]) ]
                     e == [ p \in 1..NRows(d) |-> ToDatetime(ColumnOf(d, "End Date")[p]) ]
                 IN  IF \E p \in 1..NRows(d) : s[p] = Unparsable \/ e[p] = Unparsable
                     THEN "ValueError"
                     ELSE IF \E p \in 1..NRows(d) : DatetimeGe(s[p], e[p])
                          THEN "fail" ELSE "pass"
            ELSE "fail"
      [] rule_type = "Pattern matching" ->
            IF col = "Email Address"
               /\ \E p \in 1..NRows(d) : ~ReMatch(PyStr(ColumnOf(d, col)[p]))
            THEN "fail" ELSE "pass"
      [] OTHER -> "pass"

\* one pass of the loop body of lines 76-110 for the rule of one column:
\* "fail" where the code appends idx, "pass" where it does not, or the name of
\* the exception the check raises
ColumnCheck(d, rules, col, rule_type) ==
    CASE rule_type = "Required fields" ->
            IF \E p \in 1..NRows(d) : IsNull(ColumnOf(d, col)[p]) THEN "fail" ELSE "pass"
      [] rule_type = "Unique values" ->
            IF AnyDuplicated(d, col) THEN "fail" ELSE "pass"
      [] rule_type = "Dependencies between columns" ->
            IF "Start Date" \in RuleColumns(rules) /\ "End Date" \in RuleColumns(rules)
            THEN LET s == [ p \in 1..NRows(d) |-> ToDatetime(ColumnOf(d, "Start Date")[p]) ]
                     e == [ p \in 1..NRows(d) |-> ToDatetime(ColumnOf(d, "End Date")[p]) ]
                 IN  IF \E p \in 1..NRows(d) : s[p] = Unparsable \/ e[p] = Unparsable
                     THEN "ValueError"
                     ELSE IF \E p \in 1..NRows(d) : DatetimeGe(s[p], e[p])
                          THEN "fail" ELSE "pass"
            ELSE "pass"
      [] rule_type = "Pattern matching" ->
            IF col = "Email Address"
               /\ \E p \in 1..NRows(d) : ~ReMatch(PyStr(ColumnOf(d, col)[p]))
            THEN "fail" ELSE "pass"
      [] rule_type = "Custom validation functions" ->
            \* custom_phone_number_validation returns True for every value
            "pass"
      [] OTHER -> "pass"

\* lines 120-125: the failing entries are displayed with df.iloc[failed_rows],
\* which raises IndexError for a position outside the table
ValidateDataReturn(d, failed) ==
    IF \E p \in DOMAIN failed : failed[p] >= NRows(d)
    THEN RaiseList("IndexError")
    ELSE Return(failed)

RECURSIVE ValidateDataLoop(_, _, _, _)
ValidateDataLoop(d, rules, k, failed) ==
    IF k > Len(rules) THEN ValidateDataReturn(d, failed)
    ELSE LET idx == k - 1     \* enumerate() counts the rules from 0
             r == ColumnCheck(d, rules, rules[k][1], rules[k][2])
         IN  IF r = "fail" THEN ValidateDataLoop(d, rules, k + 1, Append(failed, idx))
             ELSE IF r = "pass" THEN ValidateDataLoop(d, rules, k + 1, failed)
             ELSE RaiseList(r)

validate_data(d, rules) == ValidateDataLoop(d, rules, 1, << >>)

----------------------------------------------------------------------------
(* validate_row, lines 157-179 *)

\* the check of one rule on one row (a Series): "pass", "fail" (return False)
\* or the name of the exception raised
RowCheck(row, rules, col, rule_type) ==
    CASE rule_type = "Required fields" ->
            IF IsNull(row[col]) THEN "fail" ELSE "pass"
      [] rule_type = "Unique values" ->
            \* Series.duplicated has no parameter subset
            "TypeError"
      [] rule_type = "Dependencies between columns" ->
            IF "Start Date" \in RuleColumns(rules) /\ "End Date" \in RuleColumns(rules)
            THEN LET s == ToDatetime(row["Start Date"])
                     e == ToDatetime(row["End Date"])
                 IN  IF s = Unparsable \/ e = Unparsable THEN "ValueError"
                     ELSE IF DatetimeGe(s, e) THEN "fail" ELSE "pass"
            ELSE "pass"
      [] rule_type = "Pattern matching" ->
            IF col = "Email Address"
            THEN IF row[col] = Null THEN "TypeError"   \* re.match on a float
                 ELSE IF ~ReMatch(row[col]) THEN "fail" ELSE "pass"
            ELSE "pass"
      [] rule_type = "Custom validation functions" -> "pass"
      [] OTHER -> "pass"

RECURSIVE ValidateRowLoop(_, _, _)
ValidateRowLoop(row, rules, k) ==
    IF k > Len(rules) THEN Return(TRUE)
    ELSE LET r == RowCheck(row, rules, rules[k][1], rules[k][2])
         IN  IF r = "fail" THEN Return(FALSE)
             ELSE IF r = "pass" THEN ValidateRowLoop(row, rules, k + 1)
             ELSE RaiseBool(r)

validate_row(row, rules) == ValidateRowLoop(row, rules, 1)

----------------------------------------------------------------------------
(* fix_failed_rows, lines 127-151 *)

\* the columns for which lines 135-137 ask the operator for a value
RequiredColumns(d, rules) ==
    { col \in Range(d.columns) : RuleOf(rules, col) = "Required fields" }

\* the dict new_values of lines 134-137, texts being the operator's entries
NewValues(d, rules, texts) == [ col \in RequiredColumns(d, rules) |-> texts[col] ]

\* line 141, df.loc[idx] = new_values: the dict is aligned on the columns, a
\* column without an entry is set to the missing value; a label that is not
\* in the index is appended as a new row
SetRow(d, idx, new_values) ==
    LET new_row == [ col \in Range(d.columns) |->
                        IF col \in DOMAIN new_values THEN new_values[col] ELSE Null ]
    IN  IF idx \in RowLabels(d)
        THEN [ d EXCEPT !.data[idx] = new_row ]
        ELSE [ d EXCEPT !.index = Append(d.index, idx),
                        !.data = [ l \in RowLabels(d) \cup { idx } |->
                                      IF l = idx THEN new_row ELSE d.data[l] ] ]

FixReturn(e, failed, d) == [ exc |-> e, val |-> failed, df |-> d ]

\* FixLoop reporting the position in failed_rows of a row that still fails,
\* instead of the entry idx
RECURSIVE FixLoop_ReportsPosition(_, _, _, _, _, _)
FixLoop_ReportsPosition(d, failed, rules, texts, k, new_failed_rows) ==
    IF k > Len(failed) THEN FixReturn("none", new_failed_rows, d)
    ELSE LET idx == failed[k]
         IN  IF RequiredColumns(d, rules) # { } /\ idx \notin RowLabels(d)
             THEN FixReturn("KeyError", << >>, d)
             ELSE LET d2 == SetRow(d, idx, NewValues(d, rules, texts[k]))
                      r == validate_row(d2.data[idx], rules)
                  IN  IF r.exc # "none" THEN FixReturn(r.exc, << >>, d2)
                      ELSE FixLoop_ReportsPosition(d2, failed, rules, texts, k + 1,
                                   IF ~r.val THEN Append(new_failed_rows, k)
                                   ELSE new_failed_rows)

\* the loop of lines 132-148 from the k-th entry of failed_rows on; texts[k]
\* holds the operator's entries for that entry
RECURSIVE FixLoop(_, _, _, _, _, _)
FixLoop(d, failed, rules, texts, k, new_failed_rows) ==
    IF k > Len(failed) THEN FixReturn("none", new_failed_rows, d)
    ELSE LET idx == failed[k]
         IN  IF RequiredColumns(d, rules) # { } /\ idx \notin RowLabels(d)
             THEN FixReturn("KeyError", << >>, d)      \* df.loc[idx, col], line 137
             ELSE LET d2 == SetRow(d, idx, NewValues(d, rules, texts[k]))
                      r == validate_row(d2.data[idx], rules)
                  IN  IF r.exc # "none" THEN FixReturn(r.exc, << >>, d2)
                      ELSE FixLoop(d2, failed, rules, texts, k + 1,
                                   IF ~r.val THEN Append(new_failed_rows, idx)
                                   ELSE new_failed_rows)

fix_failed_rows(d, failed, rules, texts) == FixLoop(d, failed, rules, texts, 1, << >>)

\* the entries the operator can make for a call of fix_failed_rows
TextEntries(d, failed, rules) ==
    [ DOMAIN failed -> [ RequiredColumns(d, rules) -> FixInputs ] ]

----------------------------------------------------------------------------
(* load_data and get_validation_rules *)

NoFile == [ present |-> FALSE, table |-> NoDf ]
FileOf(t) == [ present |-> TRUE, table |-> t ]

\* lines 36-49: the reader for the file type returns the file's table
load_data(file) == file.table

\* lines 55-67: one entry per column, in column order, holding the rule type
\* selected for it
get_validation_rules(d, choice) ==
    [ k \in 1..Len(d.columns) |-> << d.columns[k], choice[k] >> ]

Unbound == [ bound |-> FALSE, val |-> << >> ]
Bound(v) == [ bound |-> TRUE, val |-> v ]

NoAnswer == [ confirm_changes |-> FALSE, save_and_export |-> FALSE ]

\* the loop of lines 17-34 before its first iteration has got past line 18
LoopStart == [ iteration |-> 1, exports |-> 0, info |-> FALSE ]

----------------------------------------------------------------------------
(* Spec: the three functions applied to a loaded table *)

Init ==
    /\ df \in Tables
    /\ rule_choice \in RuleChoices(df.columns)
    /\ validation_rules = get_validation_rules(df, rule_choice)
    /\ uploaded_file = FileOf(df)
    /\ operator = NoAnswer
    /\ pc = "loaded"
    /\ failed_rows = Unbound
    /\ returned = Return(<< >>)
    /\ row_results = << >>
    /\ df_before = df
    /\ new_values_in = << >>
    /\ error = "none"
    /\ loop = LoopStart

\* validate_data(df, validation_rules)
ValidateData ==
    /\ pc = "loaded"
    /\ returned' = validate_data(df, validation_rules)
    /\ pc' = "validated"
    /\ UNCHANGED << uploaded_file, rule_choice, operator, df, validation_rules,
                    failed_rows, row_results, df_before, new_values_in, error, loop >>

\* validate_row(df.loc[label], validation_rules) for every row of the table
ValidateRows ==
    /\ pc = "validated"
    /\ row_results' = [ l \in RowLabels(df) |-> validate_row(df.data[l], validation_rules) ]
    /\ pc' = "rows_validated"
    /\ UNCHANGED << uploaded_file, rule_choice, operator, df, validation_rules,
                    failed_rows, returned, df_before, new_values_in, error, loop >>

\* fix_failed_rows(df, failed_rows, validation_rules), failed_rows being what
\* validate_data returned
FixFailedRows ==
    /\ pc = "validated"
    /\ returned.exc = "none"
    /\ \E texts \in TextEntries(df, returned.val, validation_rules) :
          LET r == fix_failed_rows(df, returned.val, validation_rules, texts)
          IN  /\ df' = r.df
              /\ returned' = [ exc |-> r.exc, val |-> r.val ]
              /\ new_values_in' = texts
    /\ failed_rows' = Bound(returned.val)
    /\ df_before' = df
    /\ pc' = "fixed"
    /\ UNCHANGED << uploaded_file, rule_choice, operator, validation_rules,
                    row_results, error, loop >>

Next == ValidateData \/ ValidateRows \/ FixFailedRows

Spec == Init /\ [][Next]_vars

----------------------------------------------------------------------------
(* SpecLoop: the loop of main, lines 17-34, entered with failed_rows holding *)
(* what validate_data returned for the loaded table.  A widget call returns *)
(* the widget's value without waiting for the operator, so every iteration  *)
(* of a run reads the same answers at lines 19 and 21.                      *)

MaxIterations == 2

\* lines 18-24: failed_rows is assigned what fix_failed_rows returned; with
\* the button pressed and the checkbox ticked export_validation_results is
\* called, otherwise "Changes not confirmed. Reverting to original data." is
\* shown
LoopExportOrInfo ==
    /\ pc = "fixed"
    /\ returned.exc = "none"
    /\ \E answers \in [ confirm_changes : BOOLEAN, save_and_export : BOOLEAN ] :
          /\ loop.iteration = 1 \/ answers = operator
          /\ operator' = answers
          /\ loop' = IF answers.save_and_export /\ answers.confirm_changes
                     THEN [ loop EXCEPT !.exports = @ + 1, !.info = FALSE ]
                     ELSE [ loop EXCEPT !.info = TRUE ]
    /\ failed_rows' = Bound(returned.val)
    /\ pc' = "line27"
    /\ UNCHANGED << uploaded_file, rule_choice, df, validation_rules, returned,
                    row_results, df_before, new_values_in, error >>

\* lines 27-30: with the checkbox not ticked the file is loaded again and the
\* rules are declared again
LoopReload ==
    /\ pc = "line27"
    /\ IF ~operator.confirm_changes
       THEN /\ df' = load_data(uploaded_file)
            /\ validation_rules' = get_validation_rules(load_data(uploaded_file), rule_choice)
       ELSE UNCHANGED << df, validation_rules >>
    /\ pc' = "line32"
    /\ UNCHANGED << uploaded_file, rule_choice, operator, failed_rows, returned,
                    row_results, df_before, new_values_in, error, loop >>

\* lines 32-34: validate_data(df, validation_rules), its value not assigned,
\* then failed_rows = [] and the next iteration begins
LoopValidate ==
    /\ pc = "line32"
    /\ loop.iteration < MaxIterations
    /\ returned' = validate_data(df, validation_rules)
    /\ IF returned'.exc = "none"
       THEN /\ failed_rows' = Bound(<< >>)
            /\ loop' = [ loop EXCEPT !.iteration = @ + 1 ]
            /\ pc' = "line18"
            /\ error' = error
       ELSE /\ pc' = "raised"
            /\ error' = returned'.exc
            /\ UNCHANGED << failed_rows, loop >>
    /\ UNCHANGED << uploaded_file, rule_choice, operator, df, validation_rules,
                    row_results, df_before, new_values_in >>

\* line 18 in a later iteration: fix_failed_rows(df, failed_rows, validation_rules)
LoopFix ==
    /\ pc = "line18"
    /\ failed_rows.bound
    /\ \E texts \in TextEntries(df, failed_rows.val, validation_rules) :
          LET r == fix_failed_rows(df, failed_rows.val, validation_rules, texts)
          IN  /\ df' = r.df
              /\ returned' = [ exc |-> r.exc, val |-> r.val ]
              /\ new_values_in' = texts
    /\ df_before' = df
    /\ pc' = "fixed"
    /\ UNCHANGED << uploaded_file, rule_choice, operator, validation_rules,
                    failed_rows, row_results, error, loop >>

NextLoop ==
    \/ ValidateData \/ FixFailedRows
    \/ LoopExportOrInfo \/ LoopReload \/ LoopValidate \/ LoopFix

SpecLoop == Init /\ [][NextLoop]_vars

----------------------------------------------------------------------------
(* SpecMain: main, lines 6-34 *)

InitMain ==
    /\ uploaded_file \in { NoFile } \cup { FileOf(t) : t \in Tables }
    /\ rule_choice \in RuleChoices(uploaded_file.table.columns)
    /\ operator \in [ confirm_changes : BOOLEAN, save_and_export : BOOLEAN ]
    /\ pc = "line11"
    /\ df = NoDf
    /\ validation_rules = << >>
    /\ failed_rows = Unbound
    /\ returned = Return(<< >>)
    /\ row_results = << >>
    /\ df_before = NoDf
    /\ new_values_in = << >>
    /\ error = "none"
    /\ loop = LoopStart

\* line 11, no file uploaded: main returns
MainNoFile ==
    /\ pc = "line11"
    /\ ~uploaded_file.present
    /\ pc' = "returned"
    /\ UNCHANGED << uploaded_file, rule_choice, operator, df, validation_rules,
                    failed_rows, returned, row_results, df_before, new_values_in, error, loop >>

\* lines 11-13: df = load_data(uploaded_file)
MainLoad ==
    /\ pc = "line11"
    /\ uploaded_file.present
    /\ df' = load_data(uploaded_file)
    /\ df_before' = load_data(uploaded_file)
    /\ pc' = "line14"
    /\ UNCHANGED << uploaded_file, rule_choice, operator, validation_rules,
                    failed_rows, returned, row_results, new_values_in, error, loop >>

\* line 14: validation_rules = get_validation_rules(df)
MainGetRules ==
    /\ pc = "line14"
    /\ validation_rules' = get_validation_rules(df, rule_choice)
    /\ pc' = "line15"
    /\ UNCHANGED << uploaded_file, rule_choice, operator, df,
                    failed_rows, returned, row_results, df_before, new_values_in, error, loop >>

\* line 15: validate_data(df, validation_rules); the value it returns is not
\* assigned to anything, an exception it raises ends main
MainValidate ==
    /\ pc = "line15"
    /\ returned' = validate_data(df, validation_rules)
    /\ IF returned'.exc = "none"
       THEN pc' = "line18" /\ error' = error
       ELSE pc' = "raised" /\ error' = returned'.exc
    /\ UNCHANGED << uploaded_file, rule_choice, operator, df, validation_rules,
                    failed_rows, row_results, df_before, new_values_in, loop >>

\* line 18, first iteration of the loop: the argument failed_rows is a local
\* variable of main (assigned at lines 18 and 34) that has no value yet, and
\* reading it raises UnboundLocalError before fix_failed_rows is entered.
\* Lines 19-34 are never reached.
MainFixCall ==
    /\ pc = "line18"
    /\ ~failed_rows.bound
    /\ pc' = "raised"
    /\ error' = "UnboundLocalError"
    /\ UNCHANGED << uploaded_file, rule_choice, operator, df, validation_rules,
                    failed_rows, returned, row_results, df_before, new_values_in, loop >>

NextMain == MainNoFile \/ MainLoad \/ MainGetRules \/ MainValidate \/ MainFixCall

SpecMain == InitMain /\ [][NextMain]_vars

----------------------------------------------------------------------------
(* What the claims call a failing row *)

\* the rows of column col that hold the missing value
NullRows(d, col) == { l \in RowLabels(d) : IsNull(d.data[l][col]) }

\* the rows of column col whose value equals the value of another row
DuplicateRows(d, col) ==
    { l \in RowLabels(d) : \E m \in RowLabels(d) : m # l /\ d.data[m][col] = d.data[l][col] }

\* the rows of column col whose value does not match the e-mail pattern in full
MismatchRows(d, col) == { l \in RowLabels(d) : ~ReFullMatch(PyStr(d.data[l][col])) }

\* the rows whose start is not before their end
StartNotBeforeEndRows(d) ==
    { l \in RowLabels(d) :
        DatetimeGe(ToDatetime(d.data[l]["Start Date"]), ToDatetime(d.data[l]["End Date"])) }

\* the rows at which the rule of the k-th column is violated
RuleViolationRows(d, rules, k) ==
    LET col == rules[k][1]
        rule_type == rules[k][2]
    IN  CASE rule_type = "Required fields" -> NullRows(d, col)
          [] rule_type = "Unique values" -> DuplicateRows(d, col)
          [] rule_type = "Pattern matching" /\ col = "Email Address" -> MismatchRows(d, col)
          [] rule_type = "Dependencies between columns"
             /\ { "Start Date", "End Date" } \subseteq RuleColumns(rules) -> StartNotBeforeEndRows(d)
          [] OTHER -> { }

\* the rows at which at least one declared rule is violated
ViolatingRows(d, rules) == UNION { RuleViolationRows(d, rules, k) : k \in DOMAIN rules }

\* the positions of the columns whose rule is of the given type
ColumnsUnder(rules, rule_type) == { k \in DOMAIN rules : rules[k][2] = rule_type }

\* no column carries another rule type that the code evaluates
OnlyRule(rules, rule_type) ==
    \A k \in DOMAIN rules :
        rules[k][2] \in { rule_type, "Custom validation functions" } \cup (RuleTypes \ CheckedRuleTypes)

\* the validation pass has returned a failing set
PassReturned == pc \in { "validated", "rows_validated" } /\ returned.exc = "none"

\* the per-row check has returned for every row
RowsReturned == pc = "rows_validated" /\ \A l \in RowLabels(df) : row_results[l].exc = "none"

RowFailures == { l \in RowLabels(df) : ~row_results[l].val }

----------------------------------------------------------------------------
(* Claims *)

\* C1: the failing-row set of the full pass (validate_data) equals the set of
\* rows for which the per-row check (validate_row) fails, both having returned.
C1_FullPassEqualsPerRow ==
    (PassReturned /\ RowsReturned) => Range(returned.val) = RowFailures

\* C2: after fix_failed_rows has applied new values to a table with a column
\* under "Unique values", it returns a failing set, which contains every row
\* whose value is duplicated in the whole column of the mutated table, and
\* nothing else when no other rule is declared.
C2_FixReportsColumnDuplicates ==
    (pc = "fixed" /\ failed_rows.val # << >> /\ ColumnsUnder(validation_rules, "Unique values") # { })
    => /\ returned.exc = "none"
       /\ \A k \in ColumnsUnder(validation_rules, "Unique values") :
             /\ DuplicateRows(df, validation_rules[k][1]) \subseteq Range(returned.val)
             /\ OnlyRule(validation_rules, "Unique values")
                => Range(returned.val) \subseteq DuplicateRows(df, validation_rules[k][1])

\* C6: every index of the failing set returned by a validation pass is a row
\* index of the table at which a declared rule is violated, and every row at
\* which a declared rule is violated is in the failing set.
C6_FailingSetIsViolatingRows ==
    PassReturned
    => /\ \A p \in DOMAIN returned.val : returned.val[p] \in 0..(NRows(df) - 1)
       /\ Range(returned.val) = ViolatingRows(df, validation_rules)

\* C7: with "Required fields" the only rule evaluated, the failing set of the
\* full pass is the set of rows that hold a missing value in a column under the
\* rule, whatever the position of the column.
C7_RequiredFailsNullRows ==
    (PassReturned /\ OnlyRule(validation_rules, "Required fields"))
    => Range(returned.val)
         = UNION { NullRows(df, validation_rules[k][1]) :
                     k \in ColumnsUnder(validation_rules, "Required fields") }

\* C8: with "Unique values" the only rule evaluated, the failing set of the
\* full pass is the set of rows whose value equals that of another row of the
\* column.
C8_UniqueFailsDuplicateRows ==
    (PassReturned /\ OnlyRule(validation_rules, "Unique values"))
    => Range(returned.val)
         = UNION { DuplicateRows(df, validation_rules[k][1]) :
                     k \in ColumnsUnder(validation_rules, "Unique values") }

\* C9: with "Pattern matching" on the column Email Address the only rule
\* evaluated, a row is in the failing set of the full pass, and fails the
\* per-row check, if and only if its value does not match the pattern in full.
C9_PatternFailsMismatchRows ==
    (OnlyRule(validation_rules, "Pattern matching")
       /\ \E k \in DOMAIN validation_rules :
             validation_rules[k] = << "Email Address", "Pattern matching" >>)
    => /\ PassReturned => Range(returned.val) = MismatchRows(df, "Email Address")
       /\ RowsReturned => RowFailures = MismatchRows(df, "Email Address")

\* C10: with Start Date and End Date present and "Dependencies between
\* columns" the only rule evaluated, a row is in the failing set of the full
\* pass, and fails the per-row check, if and only if its start is not before
\* its end.
C10_DependencyFailsOwnRow ==
    (OnlyRule(validation_rules, "Dependencies between columns")
       /\ ColumnsUnder(validation_rules, "Dependencies between columns") # { }
       /\ { "Start Date", "End Date" } \subseteq RuleColumns(validation_rules))
    => /\ PassReturned => Range(returned.val) = StartNotBeforeEndRows(df)
       /\ RowsReturned => RowFailures = StartNotBeforeEndRows(df)

\* the operator has ticked the checkbox of line 19 and pressed the button of
\* line 21
Confirmed == operator.confirm_changes /\ operator.save_and_export

\* main has ended after entering the branch of line 11
Stopped == pc \in { "raised", "exported" }

C4_FixGetsLastOutcome ==
    pc = "line18" => failed_rows.bound /\ failed_rows.val = returned.val

\* C5: a confirmation ends main in the terminal Exported state, the export
\* handoff made: a main that has stopped with a confirming operator is in that
\* state.
C5_ConfirmEndsExported ==
    (Stopped /\ returned.exc = "none" /\ Confirmed) => pc = "exported"

\* a partner column of the dependency rule has no entry in validation_rules
PartnerAbsent == ~({ "Start Date", "End Date" } \subseteq RuleColumns(validation_rules))

\* the rule types are "Dependencies between columns" and "Required fields" only
DependencyAndRequiredOnly ==
    \A k \in DOMAIN validation_rules :
        validation_rules[k][2] \in { "Dependencies between columns", "Required fields" }

\* C11: with Start Date or End Date absent, a "Dependencies between columns"
\* rule raises no error and adds no entry to the failing set of the full pass,
\* and fails no row in the per-row check; the "Required fields" rules declared
\* beside it are still evaluated.
C11_MissingPartnerIsNoOp ==
    (PartnerAbsent /\ ColumnsUnder(validation_rules, "Dependencies between columns") # { })
    => /\ pc \in { "validated", "rows_validated" }
          => /\ returned.exc \in { "none", "IndexError" }
             /\ returned.exc = "none"
                => /\ \A k \in ColumnsUnder(validation_rules, "Dependencies between columns") :
                         (k - 1) \notin Range(returned.val)
                   /\ \A k \in ColumnsUnder(validation_rules, "Required fields") :
                         (k - 1) \in Range(returned.val)
                           <=> NullRows(df, validation_rules[k][1]) # { }
       /\ (pc = "rows_validated" /\ DependencyAndRequiredOnly)
          => \A l \in RowLabels(df) :
                row_results[l]
                  = Return(\A k \in ColumnsUnder(validation_rules, "Required fields") :
                              ~IsNull(df.data[l][validation_rules[k][1]]))

\* C11 witness: both checks have run on a table without End Date, with a
\* dependency rule and a "Required fields" rule that a row violates
C11_Witness ==
    /\ pc = "rows_validated"
    /\ PartnerAbsent
    /\ DependencyAndRequiredOnly
    /\ ColumnsUnder(validation_rules, "Dependencies between columns") # { }
    /\ returned.exc = "none" /\ returned.val # << >>
    /\ \E l \in RowLabels(df) : row_results[l] = Return(FALSE)

\* C12: after fix_failed_rows has returned, every cell of a row that was not
\* being fixed, and every cell of a fixed row in a column for which no value
\* was asked, holds the value it held before the call, and no row was added.
C12_FixWritesOnlySubmittedCells ==
    (pc = "fixed" /\ returned.exc = "none")
    => /\ RowLabels(df) = RowLabels(df_before)
       /\ \A l \in RowLabels(df_before) : \A col \in Range(df_before.columns) :
             (l \notin Range(failed_rows.val)
                \/ col \notin RequiredColumns(df_before, validation_rules))
             => df.data[l][col] = df_before.data[l][col]

\* C13: no cell that cannot be interpreted as the type a rule needs makes a
\* validation step end in an error: the full pass does not end in the error of
\* a conversion, and the per-row check returns for every row (rule
\* assignments with "Unique values", on which the per-row check raises
\* whatever the cells hold, left aside).
C13_ValidationNeverRaises ==
    /\ pc \in { "validated", "rows_validated" } => returned.exc \notin { "ValueError", "TypeError" }
    /\ (pc = "rows_validated" /\ ColumnsUnder(validation_rules, "Unique values") = { })
       => \A l \in RowLabels(df) : row_results[l].exc = "none"

\* the rows of column col whose value is present and is not a date
NonDateRows(d, col) ==
    { l \in RowLabels(d) : ~IsNull(d.data[l][col]) /\ ToDatetime(d.data[l][col]) = Unparsable }

\* C16: no selectable rule type is evaluated as an unconditional pass: with a
\* column under "Date/time constraints" that holds a value that is not a date,
\* the full pass reports a failure and the per-row check fails that row.
C16_DateTimeConstraintEvaluated ==
    \A k \in ColumnsUnder(validation_rules, "Date/time constraints") :
        NonDateRows(df, validation_rules[k][1]) # { }
        => /\ PassReturned => returned.val # << >>
           /\ RowsReturned
              => \A l \in NonDateRows(df, validation_rules[k][1]) : row_results[l] = Return(FALSE)

\* r is g with some entries left out: same relative order, nothing added
IsSubsequence(r, g) ==
    \E f \in [ DOMAIN r -> DOMAIN g ] :
        /\ \A i, j \in DOMAIN r : i < j => f[i] < f[j]
        /\ \A i \in DOMAIN r : r[i] = g[f[i]]

OperatorIdle ==
    /\ operator = NoAnswer
    /\ \A k \in DOMAIN new_values_in : DOMAIN new_values_in[k] = { }

====
